---- MODULE Spec2Model ----
(***************************************************************************)
(* CatBoostSymbolicExplainer (catboost_axp_explainer2.py): the parser of   *)
(* tree ensembles into rule clauses, the condition registry, the minimal-  *)
(* explanation solver, the batch explainer and the coverage validation.    *)
(***************************************************************************)
EXTENDS Integers, Sequences, FiniteSets, TLC

VARIABLES condition_id_map, id_condition_map, rule_clauses, rule_predictions,
          feature_names, model_json, tree_rules, id_gen, axp_cache, last, ncalls

vars == <<condition_id_map, id_condition_map, rule_clauses, rule_predictions,
          feature_names, model_json, tree_rules, id_gen, axp_cache, last, ncalls>>

(***************************************************************************)
(* Bounds of the explored inputs.                                          *)
(***************************************************************************)
\* trees per ensemble description
MaxTrees == 2
\* split nodes per model-JSON ensemble (all its trees together)
MaxSplits == 2
\* split nodes per tree-rules ensemble (all its trees together)
MaxRuleSplits == 1
\* parse and intern calls made on one explainer
MaxCalls == 2
\* parse and intern calls made on an explainer that then serves explanations
MaxLoads == 1
\* rows of a feature matrix
MaxRows == 3

(***************************************************************************)
(* Input alphabets.                                                        *)
(***************************************************************************)
\* (feature index, border) pairs of the splits: A at 5, B at 10
SplitConds == {<<0, 5>>, <<1, 10>>}
LeafValues == {0, 2}
FeatureValues == {5, 12}
Classes == {0, 1}
\* the flat feature table of every description: index -> feature_id
FloatFeatures == <<[flat_feature_index |-> 0, feature_id |-> "A"],
                   [flat_feature_index |-> 1, feature_id |-> "B"]>>
\* a Python dict with no entry / the value None
EmptyDict == [k \in {} |-> 0]

Range(s) == {s[i] : i \in DOMAIN s}

(***************************************************************************)
(* Model-JSON trees (non_oblivious_trees[i]["nodes"]): a node carries      *)
(* either leaf_value or split_condition with left_child and right_child.   *)
(***************************************************************************)
JsonLeaves == {[leaf_value |-> v] : v \in LeafValues}

RECURSIVE JsonTrees(_)
\* the trees with exactly n split nodes
JsonTrees(n) ==
    IF n = 0 THEN JsonLeaves
    ELSE UNION {
           {[split_condition |-> [float_feature_index |-> c[1], border |-> c[2]],
             left_child |-> l, right_child |-> r] :
               c \in SplitConds, l \in JsonTrees(k), r \in JsonTrees(n - 1 - k)} :
           k \in 0..(n - 1)}

RECURSIVE JsonForests(_, _)
\* the sequences of exactly t trees with at most s split nodes in all
JsonForests(t, s) ==
    IF t = 0 THEN {<<>>}
    ELSE UNION {
           {<<[nodes |-> tr]>> \o rest :
               tr \in JsonTrees(k), rest \in JsonForests(t - 1, s - k)} :
           k \in 0..s}

FeaturesInfo == [float_features |-> FloatFeatures]

\* the descriptions handed to fit_from_model_json: non-oblivious ensembles, a
\* description declaring oblivious trees, and one with no tree list at all
ModelJsons ==
    {[features_info |-> FeaturesInfo, non_oblivious_trees |-> f] :
        f \in UNION {JsonForests(t, MaxSplits) : t \in 0..MaxTrees}}
    \cup {[features_info |-> FeaturesInfo, oblivious_trees |-> <<>>]}
    \cup {[features_info |-> FeaturesInfo]}

(***************************************************************************)
(* Tree-rules trees (tree_rules["trees"][i]): a node carries value (a      *)
(* leaf), or split with left and right, or neither.                        *)
(***************************************************************************)
RuleSplits ==
    {[split_type |-> "FloatFeature", float_feature_index |-> 0, border |-> 5],
     [split_type |-> "FloatFeature", float_feature_index |-> 1, border |-> 10],
     [split_type |-> "OneHotFeature", cat_feature_index |-> 0, value |-> 5],
     [split_type |-> "OnlineCtr", split_index |-> 0, border |-> 5],
     [split_type |-> "ExactCtr", split_index |-> 0, border |-> 5]}

SupportedSplitTypes == {"FloatFeature", "OneHotFeature", "OnlineCtr"}

RuleTerminals == {[value |-> v] : v \in LeafValues} \cup {[node_index |-> 0]}

RECURSIVE RuleTrees(_)
RuleTrees(n) ==
    IF n = 0 THEN RuleTerminals
    ELSE UNION {
           {[split |-> s, left |-> l, right |-> r] :
               s \in RuleSplits, l \in RuleTrees(k), r \in RuleTrees(n - 1 - k)} :
           k \in 0..(n - 1)}

RECURSIVE RuleForests(_, _)
RuleForests(t, s) ==
    IF t = 0 THEN {<<>>}
    ELSE UNION {
           {<<tr>> \o rest : tr \in RuleTrees(k), rest \in RuleForests(t - 1, s - k)} :
           k \in 0..s}

\* the contents of the tree-rules file: an ensemble, a description declaring
\* oblivious trees, and an empty JSON object
TreeRulesFiles ==
    {[float_features |-> FloatFeatures, trees |-> f] :
        f \in UNION {RuleForests(t, MaxRuleSplits) : t \in 0..MaxTrees}}
    \cup {[float_features |-> FloatFeatures, oblivious_trees |-> <<>>]}
    \cup {EmptyDict}

(***************************************************************************)
(* The registry and the rule set as one value, threaded through the parse. *)
(***************************************************************************)
Registry == [condition_id_map |-> condition_id_map,
             id_condition_map |-> id_condition_map,
             rule_clauses |-> rule_clauses,
             rule_predictions |-> rule_predictions,
             id_gen |-> id_gen]

\* Cleared with the rule set left as it was
ClearedMapsOnly(st) == [st EXCEPT !.condition_id_map = EmptyDict,
                                  !.id_condition_map = EmptyDict]

\* Cleared with the literal ids starting again from 1
ClearedResetIds(st) == [st EXCEPT !.condition_id_map = EmptyDict,
                                  !.id_condition_map = EmptyDict,
                                  !.rule_clauses = <<>>,
                                  !.rule_predictions = <<>>,
                                  !.id_gen = 1]

\* Cleared with the two registry maps left as they were
ClearedRulesOnly(st) == [st EXCEPT !.rule_clauses = <<>>, !.rule_predictions = <<>>]

\* rule_clauses.clear() ... id_condition_map.clear(): _id_gen is not touched
Cleared(st) == [st EXCEPT !.condition_id_map = EmptyDict,
                          !.id_condition_map = EmptyDict,
                          !.rule_clauses = <<>>,
                          !.rule_predictions = <<>>]

\* _get_condition_literal without the membership test: always a new literal
GetConditionLiteralNoReuse(st, key) ==
    LET lit == st.id_gen
    IN [st |-> [st EXCEPT !.id_gen = lit + 1,
                          !.condition_id_map = (key :> lit) @@ @,
                          !.id_condition_map = (lit :> key) @@ @],
        lit |-> lit]

\* _get_condition_literal: the registry after the call and the literal returned
_get_condition_literal(st, key) ==
    IF key \in DOMAIN st.condition_id_map
    THEN [st |-> st, lit |-> st.condition_id_map[key]]
    ELSE LET lit == st.id_gen
         IN [st |-> [st EXCEPT !.id_gen = lit + 1,
                               !.condition_id_map = (key :> lit) @@ @,
                               !.id_condition_map = (lit :> key) @@ @],
             lit |-> lit]

RECURSIVE InternAll(_, _)
\* [self._get_condition_literal(f, t, d) for (f, t, d) in conditions]
InternAll(st, conditions) ==
    IF conditions = <<>> THEN [st |-> st, clause |-> <<>>]
    ELSE LET r == _get_condition_literal(st, Head(conditions))
             rest == InternAll(r.st, Tail(conditions))
         IN [st |-> rest.st, clause |-> <<r.lit>> \o rest.clause]

\* pred = 1 if leaf_value > 0 else 0
LeafPrediction(v) == IF v > 0 THEN 1 ELSE 0

\* EmitRule with a literal kept once per clause
EmitRuleDistinct(st, v, conditions) ==
    LET r == InternAll(st, conditions)
        firsts == {k \in DOMAIN r.clause : \A j \in 1..(k - 1) : r.clause[j] # r.clause[k]}
        clause == [n \in 1..Cardinality(firsts) |->
                      r.clause[CHOOSE k \in firsts :
                                   Cardinality({j \in firsts : j < k}) = n - 1]]
    IN [r.st EXCEPT !.rule_clauses = Append(@, clause),
                    !.rule_predictions = Append(@, LeafPrediction(v))]

\* the leaf case of both traversals: intern the path, append clause and label
EmitRule(st, v, conditions) ==
    LET r == InternAll(st, conditions)
    IN [r.st EXCEPT !.rule_clauses = Append(@, r.clause),
                    !.rule_predictions = Append(@, LeafPrediction(v))]

RECURSIVE _traverse_non_oblivious_tree(_, _, _)
\* node["split_condition"] of a node that has neither leaf_value nor
\* split_condition raises KeyError: the registry stays as it is at that point
\* (field err), and nothing is traversed after it
_traverse_non_oblivious_tree(st, node, conditions) ==
    IF "err" \in DOMAIN st THEN st
    ELSE IF "leaf_value" \in DOMAIN node
    THEN EmitRule(st, node.leaf_value, conditions)
    ELSE IF "split_condition" \notin DOMAIN node
    THEN [k \in DOMAIN st \cup {"err"} |-> IF k = "err" THEN "KeyError" ELSE st[k]]
    ELSE LET split == node.split_condition
             feature_index == split.float_feature_index
             threshold == split.border
             afterLeft == _traverse_non_oblivious_tree(st, node.left_child,
                              Append(conditions, <<feature_index, threshold, 0>>))
         IN _traverse_non_oblivious_tree(afterLeft, node.right_child,
                              Append(conditions, <<feature_index, threshold, 1>>))

RECURSIVE FitTrees(_, _)
\* for tree in model_json["non_oblivious_trees"]: traverse(tree["nodes"], [], [])
FitTrees(st, trees) ==
    IF trees = <<>> THEN st
    ELSE FitTrees(_traverse_non_oblivious_tree(st, Head(trees).nodes, <<>>), Tail(trees))

\* the key of a tree-rules split: (index, threshold or category)
RuleSplitKey(split) ==
    IF split.split_type = "FloatFeature" THEN <<split.float_feature_index, split.border>>
    ELSE IF split.split_type = "OneHotFeature" THEN <<split.cat_feature_index, split.value>>
    ELSE <<split.split_index, split.border>>

RECURSIVE _process_tree(_, _, _)
\* _process_tree.traverse: an unsupported split type and a node with neither
\* value nor split return without emitting anything and without an error
_process_tree(st, node, conditions) ==
    IF "value" \in DOMAIN node
    THEN EmitRule(st, node.value, conditions)
    ELSE IF "split" \notin DOMAIN node THEN st
    ELSE IF node.split.split_type \notin SupportedSplitTypes THEN st
    ELSE LET k == RuleSplitKey(node.split)
             afterLeft == _process_tree(st, node.left, Append(conditions, <<k[1], k[2], 0>>))
         IN _process_tree(afterLeft, node.right, Append(conditions, <<k[1], k[2], 1>>))

RECURSIVE ProcessTrees(_, _)
ProcessTrees(st, trees) ==
    IF trees = <<>> THEN st
    ELSE ProcessTrees(_process_tree(st, Head(trees), <<>>), Tail(trees))

\* {f["flat_feature_index"]: f["feature_id"] for f in float_features}
FeatureNameTable(float_features) ==
    [i \in {float_features[j].flat_feature_index : j \in DOMAIN float_features} |->
        (CHOOSE f \in Range(float_features) : f.flat_feature_index = i).feature_id]

(***************************************************************************)
(* The state after construction and the parse-side operations.             *)
(***************************************************************************)
Init ==
    /\ condition_id_map = EmptyDict
    /\ id_condition_map = EmptyDict
    /\ rule_clauses = <<>>
    /\ rule_predictions = <<>>
    /\ feature_names = EmptyDict
    /\ model_json = EmptyDict
    /\ tree_rules = EmptyDict
    /\ id_gen = 1
    /\ axp_cache = <<>>
    /\ last = [op |-> "__init__", err |-> ""]
    /\ ncalls = 0

SetRegistry(st) ==
    /\ condition_id_map' = st.condition_id_map
    /\ id_condition_map' = st.id_condition_map
    /\ rule_clauses' = st.rule_clauses
    /\ rule_predictions' = st.rule_predictions
    /\ id_gen' = st.id_gen
    /\ ncalls' = ncalls + 1

\* FitResult with the two checks made before anything is cleared
FitResultCheckFirst(st, mj) ==
    IF "oblivious_trees" \in DOMAIN mj \/ "non_oblivious_trees" \notin DOMAIN mj
    THEN [st |-> st, err |-> "ValueError"]
    ELSE LET after == FitTrees(Cleared(st), mj.non_oblivious_trees)
         IN [st |-> after, err |-> IF "err" \in DOMAIN after THEN after.err ELSE ""]

\* the registry after fit_from_model_json(mj) and the error it raises
FitResult(st, mj) ==
    IF "oblivious_trees" \in DOMAIN mj
    THEN [st |-> Cleared(st), err |-> "ValueError"]
    ELSE IF "non_oblivious_trees" \notin DOMAIN mj
    THEN [st |-> Cleared(st), err |-> "ValueError"]
    ELSE LET after == FitTrees(Cleared(st), mj.non_oblivious_trees)
         IN [st |-> after, err |-> IF "err" \in DOMAIN after THEN after.err ELSE ""]

fit_from_model_json(mj) ==
    LET r == FitResult(Registry, mj)
    IN /\ SetRegistry(r.st)
       /\ model_json' = mj
       /\ feature_names' = FeatureNameTable(mj.features_info.float_features)
       /\ last' = [op |-> "fit_from_model_json", err |-> r.err]
       /\ UNCHANGED <<tree_rules, axp_cache>>

\* the registry after _process_tree_rules over the loaded rules tr
ProcessTreeRulesResult(st, tr) ==
    IF DOMAIN tr = {}
    THEN [st |-> Cleared(st), err |-> "ValueError"]
    ELSE [st |-> ProcessTrees(Cleared(st),
                     IF "trees" \in DOMAIN tr THEN tr.trees ELSE <<>>),
          err |-> ""]

\* _process_tree_rules called on what load_tree_rules left in self.tree_rules
_process_tree_rules ==
    LET r == ProcessTreeRulesResult(Registry, tree_rules)
    IN /\ SetRegistry(r.st)
       /\ last' = [op |-> "_process_tree_rules", err |-> r.err]
       /\ UNCHANGED <<feature_names, model_json, tree_rules, axp_cache>>

\* load_tree_rules with the file at tree_rules_path holding tr
load_tree_rules(tr) ==
    LET r == ProcessTreeRulesResult(Registry, tr)
    IN /\ tree_rules' = tr
       /\ feature_names' = IF "float_features" \in DOMAIN tr
                           THEN FeatureNameTable(tr.float_features)
                           ELSE feature_names
       /\ SetRegistry(r.st)
       /\ last' = [op |-> "load_tree_rules", err |-> r.err]
       /\ UNCHANGED <<model_json, axp_cache>>

\* a direct call of _get_condition_literal(feat_idx, threshold, direction)
InternKeys == {<<c[1], c[2], d>> : c \in SplitConds, d \in {0, 1}}

Intern(key) ==
    LET r == _get_condition_literal(Registry, key)
    IN /\ SetRegistry(r.st)
       /\ last' = [op |-> "_get_condition_literal", err |-> "", key |-> key,
                   ret |-> r.lit]
       /\ UNCHANGED <<feature_names, model_json, tree_rules, axp_cache>>

(***************************************************************************)
(* The explain side: rule matching, the hitting-set solver, the batch      *)
(* explainer and the coverage validation.                                  *)
(***************************************************************************)
\* feature vectors, indexed by feature index as instance[feat]
Instances == [{c[1] : c \in SplitConds} -> FeatureValues]
\* feature matrices of at most MaxRows rows
Matrices == UNION {[1..n -> Instances] : n \in 0..MaxRows}

\* _literal_condition_holds: value <= threshold if direction == 0 else value > threshold
_literal_condition_holds(x, lit) ==
    LET key == id_condition_map[lit]
        value == x[key[1]]
    IN IF key[3] = 0 THEN value <= key[2] ELSE value > key[2]

\* InstanceSatisfies with >= in place of >
InstanceSatisfiesInclusive(instance, key) ==
    IF key[3] = 0 THEN instance[key[1]] <= key[2] ELSE instance[key[1]] >= key[2]

\* InstanceSatisfies with < in place of <=
InstanceSatisfiesStrict(instance, key) ==
    IF key[3] = 0 THEN instance[key[1]] < key[2] ELSE instance[key[1]] > key[2]

\* the test of _satisfied_rules on one literal's condition:
\* instance[feat] <= thresh if dir == 0 else instance[feat] > thresh
InstanceSatisfies(instance, key) ==
    IF key[3] = 0 THEN instance[key[1]] <= key[2] ELSE instance[key[1]] > key[2]

RECURSIVE SatisfiedRulesFrom(_, _, _)
\* the loop of _satisfied_rules from rule number i (from 1) on; it returns
\* Python indexes, which count from 0
SatisfiedRulesFrom(i, instance, target_class) ==
    IF i > Len(rule_clauses) THEN <<>>
    ELSE (IF /\ rule_predictions[i] = target_class
             /\ \A k \in DOMAIN rule_clauses[i] :
                   InstanceSatisfies(instance, id_condition_map[rule_clauses[i][k]])
          THEN <<i - 1>> ELSE <<>>)
         \o SatisfiedRulesFrom(i + 1, instance, target_class)

\* _satisfied_rules without the test of the rule's prediction
SatisfiedRulesAnyClass(instance, target_class) ==
    SelectSeq([i \in 1..Len(rule_clauses) |-> i - 1],
              LAMBDA r : \A k \in DOMAIN rule_clauses[r + 1] :
                  InstanceSatisfies(instance, id_condition_map[rule_clauses[r + 1][k]]))

_satisfied_rules(instance, target_class) == SatisfiedRulesFrom(1, instance, target_class)

RECURSIVE SatisfiedClausesFrom(_, _, _)
\* the loop of _satisfied_clauses_for_instance: the clauses themselves
SatisfiedClausesFrom(i, x, target_class) ==
    IF i > Len(rule_clauses) THEN <<>>
    ELSE (IF /\ rule_predictions[i] = target_class
             /\ \A k \in DOMAIN rule_clauses[i] :
                   _literal_condition_holds(x, rule_clauses[i][k])
          THEN <<rule_clauses[i]>> ELSE <<>>)
         \o SatisfiedClausesFrom(i + 1, x, target_class)

_satisfied_clauses_for_instance(x, target_class) == SatisfiedClausesFrom(1, x, target_class)

\* Frozen with a literal id drawn from the generator
FrozenExceptIdGen ==
    /\ id_gen' = id_gen + 1
    /\ UNCHANGED <<condition_id_map, id_condition_map, rule_clauses, rule_predictions,
                   feature_names, model_json, tree_rules, axp_cache, ncalls>>

\* what an explain-side call leaves alone
Frozen == UNCHANGED <<condition_id_map, id_condition_map, rule_clauses, rule_predictions,
                      feature_names, model_json, tree_rules, id_gen, axp_cache, ncalls>>

SatisfiedRulesCall(instance, target_class) ==
    /\ last' = [op |-> "_satisfied_rules", err |-> "", x |-> instance,
                class |-> target_class, ret |-> _satisfied_rules(instance, target_class)]
    /\ Frozen

SatisfiedClausesCall(x, target_class) ==
    /\ last' = [op |-> "_satisfied_clauses_for_instance", err |-> "", x |-> x,
                class |-> target_class,
                ret |-> _satisfied_clauses_for_instance(x, target_class)]
    /\ Frozen

\* ---- pysat Hitman -------------------------------------------------------
ClauseLits(clauses) == UNION {Range(clauses[i]) : i \in DOMAIN clauses}

IsHittingSet(h, clauses) == \A i \in DOMAIN clauses : Range(clauses[i]) \cap h # {}

HittingSets(clauses) == {h \in SUBSET ClauseLits(clauses) : IsHittingSet(h, clauses)}

\* the hitting sets no literal can be removed from
MinimalHittingSets(clauses) ==
    {h \in HittingSets(clauses) : \A l \in h : ~IsHittingSet(h \ {l}, clauses)}

\* the hitting sets of least cardinality
MinimumHittingSets(clauses) ==
    {h \in HittingSets(clauses) :
        \A g \in HittingSets(clauses) : Cardinality(g) >= Cardinality(h)}

RECURSIVE FirstSeen(_, _)
\* the literals of the clauses in the order Hitman first meets them
FirstSeen(clauses, seen) ==
    IF clauses = <<>> THEN <<>>
    ELSE LET c == Head(clauses)
         IN IF c = <<>> THEN FirstSeen(Tail(clauses), seen)
            ELSE IF Head(c) \in seen THEN FirstSeen(<<Tail(c)>> \o Tail(clauses), seen)
            ELSE <<Head(c)>> \o FirstSeen(<<Tail(c)>> \o Tail(clauses), seen \cup {Head(c)})

\* a hitting set as the list Hitman returns it
AsList(h, clauses) == SelectSeq(FirstSeen(clauses, {}), LAMBDA l : l \in h)

\* Hitman.get() after hit(clause) for each clause: a hitting set of least
\* cardinality, or None when no hitting set exists (some clause is empty)
HitmanGet(clauses) ==
    IF HittingSets(clauses) = {} THEN {[none |-> TRUE, lits |-> <<>>]}
    ELSE {[none |-> FALSE, lits |-> AsList(h, clauses)] : h \in MinimumHittingSets(clauses)}

\* the sequences that list every member of the set S once
Orderings(S) ==
    {f \in [1..Cardinality(S) -> S] : \A i, j \in DOMAIN f : i # j => f[i] # f[j]}

\* list(Hitman.enumerate()): every minimal hitting set once, smaller ones first
HitmanEnumerate(clauses) ==
    {[k \in DOMAIN f |-> AsList(f[k], clauses)] :
        f \in {g \in Orderings(MinimalHittingSets(clauses)) :
                 \A i, j \in DOMAIN g : i < j => Cardinality(g[i]) <= Cardinality(g[j])}}

\* ---- the solver -----------------------------------------------------------
\* _compute_axp hitting the clause of the first rule id only
ComputeAxpFirstOnly(rule_ids) == HitmanGet(<<rule_clauses[rule_ids[1] + 1]>>)

\* _compute_axp: for ridx in rule_ids: h.hit(self.rule_clauses[ridx])
_compute_axp(rule_ids) == HitmanGet([k \in DOMAIN rule_ids |-> rule_clauses[rule_ids[k] + 1]])

\* explain_literals: the values it can return
ExplainLiteralsResult(x, predicted_class) ==
    LET matched == _satisfied_rules(x, predicted_class)
    IN IF matched = <<>> THEN {[none |-> FALSE, lits |-> <<>>]}
       ELSE _compute_axp(matched)

\* _literal_to_text: f"{feat} {op} {thresh}" as its three fields
_literal_to_text(lit) ==
    LET key == id_condition_map[lit]
    IN <<feature_names[key[1]], IF key[3] = 0 THEN "<=" ELSE ">", key[2]>>

\* a direct call of _literal_to_text(lit): a literal that is not in
\* id_condition_map, or whose feature index is not in feature_names, raises
\* KeyError
LiteralToTextCall(lit) ==
    /\ last' = IF lit \notin DOMAIN id_condition_map
               THEN [op |-> "_literal_to_text", err |-> "KeyError", lit |-> lit, ret |-> <<>>]
               ELSE IF id_condition_map[lit][1] \notin DOMAIN feature_names
               THEN [op |-> "_literal_to_text", err |-> "KeyError", lit |-> lit, ret |-> <<>>]
               ELSE [op |-> "_literal_to_text", err |-> "", lit |-> lit,
                     ret |-> _literal_to_text(lit)]
    /\ Frozen

\* _enumerate_axps keeping the first enumerated set only
EnumerateAxpsFirstOnly(clauses) ==
    {IF e = <<>> THEN e ELSE <<Head(e)>> : e \in HitmanEnumerate(clauses)}

\* _enumerate_axps
_enumerate_axps(clauses) == HitmanEnumerate(clauses)

explain_literals(x, predicted_class) ==
    /\ \E r \in ExplainLiteralsResult(x, predicted_class) :
          last' = [op |-> "explain_literals", err |-> "", x |-> x,
                   class |-> predicted_class, ret |-> r]
    /\ Frozen

RECURSIVE Dedup(_, _, _)
\* the records of row i for the enumerated sets e: a set whose sorted texts
\* (the key str(sorted(axp_readable))) were seen already is skipped
Dedup(i, e, seen) ==
    IF e = <<>> THEN <<>>
    ELSE LET axp_readable == [k \in DOMAIN Head(e) |-> _literal_to_text(Head(e)[k])]
             axp_str == Range(axp_readable)
         IN IF axp_str \in seen THEN Dedup(i, Tail(e), seen)
            ELSE <<[instance |-> i, axp |-> axp_readable]>>
                 \o Dedup(i, Tail(e), seen \cup {axp_str})

\* the records one row can contribute: none when it satisfies no clause
RowRecords(i, x, target_class) ==
    LET clauses == _satisfied_clauses_for_instance(x, target_class)
    IN IF clauses = <<>> THEN {<<>>}
       ELSE {Dedup(i, e, {}) : e \in _enumerate_axps(clauses)}

RECURSIVE BatchFrom(_, _, _)
\* the loop of _batch_compute_axps from row number k (from 1) on
BatchFrom(k, X, target_class) ==
    IF k > Len(X) THEN {<<>>}
    ELSE {a \o b : a \in RowRecords(k - 1, X[k], target_class),
                   b \in BatchFrom(k + 1, X, target_class)}

\* _batch_compute_axps: the lists it can return
BatchComputeAxpsResult(X, target_class) == BatchFrom(1, X, target_class)

\* a row that holds feature 0 only: x[1] raises IndexError
ShortRows == [{0} -> FeatureValues]
Rows == Instances \cup ShortRows

\* all(...) over the clause of rule i (from 1) reads x[feat] of a position the
\* row does not have: the literals before it all hold
RuleRaises(x, i) ==
    \E k \in DOMAIN rule_clauses[i] :
        /\ id_condition_map[rule_clauses[i][k]][1] \notin DOMAIN x
        /\ \A j \in 1..(k - 1) :
              /\ id_condition_map[rule_clauses[i][j]][1] \in DOMAIN x
              /\ InstanceSatisfies(x, id_condition_map[rule_clauses[i][j]])

\* the matching loop (_satisfied_rules, _satisfied_clauses_for_instance)
\* raises IndexError on the row
MatchRaises(x, target_class) ==
    \E i \in DOMAIN rule_clauses : rule_predictions[i] = target_class /\ RuleRaises(x, i)

\* _batch_compute_axps on rows that may be malformed: the exception of a row
\* leaves the method, and the records collected so far are lost
BatchComputeAxpsOutcome(X, target_class) ==
    IF \E k \in DOMAIN X : MatchRaises(X[k], target_class)
    THEN {[err |-> "IndexError", ret |-> <<>>]}
    ELSE {[err |-> "", ret |-> r] : r \in BatchComputeAxpsResult(X, target_class)}

_batch_compute_axps(X, target_class) ==
    /\ \E r \in BatchComputeAxpsOutcome(X, target_class) :
          last' = [op |-> "_batch_compute_axps", err |-> r.err, X |-> X,
                   class |-> target_class, ret |-> r.ret]
    /\ Frozen

\* threshold: float = 0.8, as the fraction ThresholdNum / ThresholdDen
ThresholdNum == 4
ThresholdDen == 5

\* X[mask] for mask = (predictions == class_label): the rows, in order
ClassRows(X, predictions, class_label) ==
    LET idx == SelectSeq([i \in DOMAIN X |-> i], LAMBDA i : predictions[i] = class_label)
    IN [k \in DOMAIN idx |-> X[idx[k]]]

\* explain_dataset(X_class, predictions[mask]) inside validate_explanations:
\* explain_instance iterates the literals, which fails on None
ExplainDatasetError(X_class, class_label) ==
    IF \E k \in DOMAIN X_class :
          \E r \in ExplainLiteralsResult(X_class[k], class_label) : r.none
    THEN "TypeError" ELSE ""

\* one round of "for class_label in [0, 1]": the error, the coverage value
\* len(explained) / len(X_class) as <<numerator, denominator>>, and whether
\* the low-coverage warning is printed
CoverageOf(X, predictions, class_label) ==
    LET X_class == ClassRows(X, predictions, class_label)
        e == ExplainDatasetError(X_class, class_label)
        explained == Len(X_class)
    IN IF e # "" THEN [err |-> e, coverage |-> <<0, 0>>, warn |-> FALSE]
       ELSE IF Len(X_class) = 0
       THEN [err |-> "ZeroDivisionError", coverage |-> <<0, 0>>, warn |-> FALSE]
       ELSE [err |-> "", coverage |-> <<explained, Len(X_class)>>,
             warn |-> explained * ThresholdDen < ThresholdNum * Len(X_class)]

\* metrics_df['stability'] of a class whose attribution table has no row
StabilityError(X, predictions) ==
    IF \E c \in Classes :
          \A r \in BatchComputeAxpsResult(ClassRows(X, predictions, c), c) : r = <<>>
    THEN "KeyError" ELSE ""

\* validate_explanations(X, predictions): the coverage part of its report,
\* the warnings it prints and the error it ends with
ValidateResult(X, predictions) ==
    LET c0 == CoverageOf(X, predictions, 0)
        c1 == CoverageOf(X, predictions, 1)
    IN IF c0.err # ""
       THEN [err |-> c0.err, coverage |-> EmptyDict, warned |-> {}]
       ELSE IF c1.err # ""
       THEN [err |-> c1.err, coverage |-> (0 :> c0.coverage),
             warned |-> {c \in {0} : c0.warn}]
       ELSE [err |-> StabilityError(X, predictions),
             coverage |-> (0 :> c0.coverage) @@ (1 :> c1.coverage),
             warned |-> {c \in {0} : c0.warn} \cup {c \in {1} : c1.warn}]

validate_explanations(X, predictions) ==
    /\ LET r == ValidateResult(X, predictions)
       IN last' = [op |-> "validate_explanations", err |-> r.err, X |-> X,
                   predictions |-> predictions, coverage |-> r.coverage,
                   warned |-> r.warned]
    /\ Frozen

(***************************************************************************)
(* The dataset side: rows that may be malformed, explain_instance,         *)
(* explain_dataset and validate_input_data.                                *)
(***************************************************************************)
\* rows of a feature matrix given to a dataset-level call
MaxBatchRows == 2
RowMatrices == UNION {[1..n -> Rows] : n \in 0..MaxBatchRows}
\* label sequences, of any length up to MaxBatchRows
LabelLists == UNION {[1..n -> Classes] : n \in 0..MaxBatchRows}
\* label sequences that may hold a label other than 0 and 1
AnyLabelLists == UNION {[1..n -> Classes \cup {2}] : n \in 0..MaxBatchRows}

\* explain_instance(instance, predicted_class): the error and the texts
ExplainInstanceResult(x, predicted_class) ==
    IF MatchRaises(x, predicted_class)
    THEN {[err |-> "IndexError", axp |-> <<>>]}
    ELSE {IF r.none THEN [err |-> "TypeError", axp |-> <<>>]
          ELSE [err |-> "", axp |-> [k \in DOMAIN r.lits |-> _literal_to_text(r.lits[k])]] :
             r \in ExplainLiteralsResult(x, predicted_class)}

\* predicted_class = <<>> stands for the default None
explain_instance(x, predicted_class) ==
    /\ IF predicted_class = <<>>
       THEN last' = [op |-> "explain_instance", err |-> "ValueError", x |-> x,
                     class |-> predicted_class, ret |-> <<>>]
       ELSE \E r \in ExplainInstanceResult(x, predicted_class[1]) :
               last' = [op |-> "explain_instance", err |-> r.err, x |-> x,
                        class |-> predicted_class, ret |-> r.axp]
    /\ Frozen

Min(a, b) == IF a < b THEN a ELSE b

RECURSIVE ExplainDatasetFrom(_, _, _)
\* the loop "for i, (x, yhat) in enumerate(zip(X, predictions))" from pair
\* number k (from 1) on; zip stops at the shorter of the two
ExplainDatasetFrom(k, X, predictions) ==
    IF k > Min(Len(X), Len(predictions)) THEN {[err |-> "", rows |-> <<>>]}
    ELSE UNION {
           IF r.err # "" THEN {[err |-> r.err, rows |-> <<>>]}
           ELSE {IF rest.err # "" THEN rest
                 ELSE [err |-> "",
                       rows |-> <<[index |-> k - 1, predicted_class |-> predictions[k],
                                   axp |-> r.axp]>> \o rest.rows] :
                    rest \in ExplainDatasetFrom(k + 1, X, predictions)} :
           r \in ExplainInstanceResult(X[k], predictions[k])}

\* explain_dataset(X, predictions): given = FALSE stands for predictions=None
ExplainDatasetResult(X, predictions, given) ==
    IF ~given THEN {[err |-> "ValueError", rows |-> <<>>]}
    ELSE ExplainDatasetFrom(1, X, predictions)

explain_dataset(X, predictions, given) ==
    /\ \E r \in ExplainDatasetResult(X, predictions, given) :
          last' = [op |-> "explain_dataset", err |-> r.err, X |-> X,
                   predictions |-> predictions, given |-> given, ret |-> r.rows]
    /\ Frozen

\* validate_input_data on an array X: the DataFrame branch does not apply
validate_input_data(X, predictions) ==
    /\ last' = [op |-> "validate_input_data", X |-> X, predictions |-> predictions,
                err |-> IF Len(X) # Len(predictions) THEN "ValueError"
                        ELSE IF \E k \in DOMAIN predictions : predictions[k] \notin {0, 1}
                        THEN "ValueError" ELSE ""]
    /\ Frozen

(***************************************************************************)
(* Feature attribution: _compute_feature_metrics over the records of       *)
(* _batch_compute_axps, compute_feature_attribution and                    *)
(* process_large_dataset.                                                  *)
(***************************************************************************)
\* cond.split()[0] of the text "feat op thresh"
FeatureOf(cond) == cond[1]

\* set(cond.split()[0] for cond in axp)
FeatureSet(axp) == {FeatureOf(axp[k]) : k \in DOMAIN axp}

\* instance_groups: its keys, and the list of explanations under one key
InstanceGroupKeys(axps) == {axps[k].instance : k \in DOMAIN axps}
InstanceGroup(axps, i) ==
    LET recs == SelectSeq(axps, LAMBDA a : a.instance = i)
    IN [k \in DOMAIN recs |-> recs[k].axp]

\* unique_features of instance i
UniqueFeatures(axps, i) ==
    UNION {FeatureSet(InstanceGroup(axps, i)[k]) : k \in DOMAIN InstanceGroup(axps, i)}

\* EssentialFeats with a union in place of the intersection
EssentialFeatsAny(axps, i) == UniqueFeatures(axps, i)

\* essential_feats = set.intersection(*feature_sets)
EssentialFeats(axps, i) ==
    {f \in UniqueFeatures(axps, i) :
        \A k \in DOMAIN InstanceGroup(axps, i) : f \in FeatureSet(InstanceGroup(axps, i)[k])}

\* ContrastiveFeats whenever the instance has more than one explanation
ContrastiveFeatsMany(axps, i) ==
    IF Len(InstanceGroup(axps, i)) > 1 THEN UniqueFeatures(axps, i) ELSE {}

\* f is in unique_features and any(f not in fs for fs in feature_sets)
ContrastiveFeats(axps, i) ==
    {f \in UniqueFeatures(axps, i) :
        \E k \in DOMAIN InstanceGroup(axps, i) : f \notin FeatureSet(InstanceGroup(axps, i)[k])}

\* the counters after the loop over instance_groups: each is raised by one
\* per instance that has the feature in the set named
Essentiality(axps, f) ==
    Cardinality({i \in InstanceGroupKeys(axps) : f \in EssentialFeats(axps, i)})
Contrastiveness(axps, f) ==
    Cardinality({i \in InstanceGroupKeys(axps) : f \in ContrastiveFeats(axps, i)})
SupportCounter(axps, f) ==
    Cardinality({i \in InstanceGroupKeys(axps) : f \in UniqueFeatures(axps, i)})
CoverageMap(axps, f) == {i \in InstanceGroupKeys(axps) : f \in UniqueFeatures(axps, i)}

\* specificity_map[f]: the lengths of the explanations that hold f, as their
\* sum and their number (np.mean is sum / number)
SpecificityMap(axps, f) ==
    LET holding == SelectSeq(axps, LAMBDA a : f \in FeatureSet(a.axp))
    IN [k \in DOMAIN holding |-> Len(holding[k].axp)]

RECURSIVE SumSeq(_)
SumSeq(s) == IF s = <<>> THEN 0 ELSE Head(s) + SumSeq(Tail(s))

RECURSIVE SumOver(_, _)
\* sum(support_counter.values())
SumOver(axps, features) ==
    IF features = {} THEN 0
    ELSE LET f == CHOOSE g \in features : TRUE
         IN SupportCounter(axps, f) + SumOver(axps, features \ {f})

\* _compute_feature_metrics: one row per key of support_counter; a ratio is
\* held as <<numerator, denominator>>.  The position statistics (stability,
\* avg_position, position_std) are left out.
_compute_feature_metrics(axps) ==
    LET instance_count == Cardinality(InstanceGroupKeys(axps))
        all_features == UNION {UniqueFeatures(axps, i) : i \in InstanceGroupKeys(axps)}
    IN {[feature |-> f,
         support |-> SupportCounter(axps, f),
         coverage |-> Cardinality(CoverageMap(axps, f)),
         specificity |-> <<SumSeq(SpecificityMap(axps, f)), Len(SpecificityMap(axps, f))>>,
         essentiality_ratio |-> <<Essentiality(axps, f), instance_count>>,
         contrastive_instances |-> Contrastiveness(axps, f),
         relative_importance |-> <<SupportCounter(axps, f), SumOver(axps, all_features)>>] :
           f \in all_features}

\* lines 818-821 for one class label: the records of the batch explainer and
\* the metrics computed from them
ClassMetricsOutcome(X_class, label) ==
    {[err |-> o.err, axps |-> o.ret,
      metrics |-> IF o.err = "" THEN _compute_feature_metrics(o.ret) ELSE {}] :
        o \in BatchComputeAxpsOutcome(X_class, label)}

\* _compute_feature_metrics called on the batch records of the rows X_class
ComputeFeatureMetricsCall(X_class, label) ==
    /\ \E r \in ClassMetricsOutcome(X_class, label) :
          last' = [op |-> "_compute_feature_metrics", err |-> r.err, X |-> X_class,
                   class |-> label, axps |-> r.axps, ret |-> r.metrics]
    /\ Frozen

\* compute_feature_attribution(X, predictions) with class_labels = [0, 1]: a
\* mask of another length than X is refused by the array indexing
ComputeFeatureAttributionResult(X, predictions) ==
    IF Len(X) # Len(predictions) THEN {[err |-> "IndexError", tables |-> EmptyDict]}
    ELSE {IF r0.err # "" THEN [err |-> r0.err, tables |-> EmptyDict]
          ELSE IF r1.err # "" THEN [err |-> r1.err, tables |-> EmptyDict]
          ELSE [err |-> "", tables |-> (0 :> r0.metrics) @@ (1 :> r1.metrics)] :
             r0 \in ClassMetricsOutcome(ClassRows(X, predictions, 0), 0),
             r1 \in ClassMetricsOutcome(ClassRows(X, predictions, 1), 1)}

compute_feature_attribution(X, predictions) ==
    /\ \E r \in ComputeFeatureAttributionResult(X, predictions) :
          last' = [op |-> "compute_feature_attribution", err |-> r.err, X |-> X,
                   predictions |-> predictions, ret |-> r.tables]
    /\ Frozen

\* process_large_dataset(X, batch_size): every batch is handed to
\* compute_feature_attribution(batch_X) without the predictions it requires
ProcessLargeDatasetResult(X, batch_size) ==
    IF batch_size = 0 THEN [err |-> "ValueError", ret |-> EmptyDict]
    ELSE IF Len(X) = 0 THEN [err |-> "", ret |-> EmptyDict]
    ELSE [err |-> "TypeError", ret |-> EmptyDict]

process_large_dataset(X, batch_size) ==
    /\ LET r == ProcessLargeDatasetResult(X, batch_size)
       IN last' = [op |-> "process_large_dataset", err |-> r.err, X |-> X,
                   batch_size |-> batch_size, ret |-> r.ret]
    /\ Frozen

(***************************************************************************)
(* The memoized solver: _compute_axp_cached under lru_cache(maxsize=128).  *)
(* axp_cache lists the entries from the least to the most recently used.   *)
(***************************************************************************)
CacheMaxSize == 128
\* length of the rule-index tuples given to the cached solver
MaxTupleLen == 2
\* cached-solver calls made on one explainer
MaxCachedCalls == 2

\* rule-index tuples: indexes (from 0) of the rules held, and the first
\* index beyond them
RuleIdTuples == UNION {[1..n -> 0..Len(rule_clauses)] : n \in 0..MaxTupleLen}

\* the positions of the cache that hold the key: lru_cache compares the
\* argument tuple as it is given
CacheIndex(key) == {k \in DOMAIN axp_cache : axp_cache[k].key = key}

\* the cache without its entry at position k
CacheWithout(k) == [j \in 1..(Len(axp_cache) - 1) |->
                       IF j < k THEN axp_cache[j] ELSE axp_cache[j + 1]]

_compute_axp_cached(rule_ids_tuple) ==
    /\ IF CacheIndex(rule_ids_tuple) # {}
       THEN LET k == CHOOSE j \in CacheIndex(rule_ids_tuple) : TRUE
            IN /\ axp_cache' = Append(CacheWithout(k), axp_cache[k])
               /\ last' = [op |-> "_compute_axp_cached", err |-> "", key |-> rule_ids_tuple,
                           hit |-> TRUE, ret |-> axp_cache[k].value]
       ELSE IF \E j \in DOMAIN rule_ids_tuple : rule_ids_tuple[j] >= Len(rule_clauses)
       THEN /\ axp_cache' = axp_cache
            /\ last' = [op |-> "_compute_axp_cached", err |-> "IndexError",
                        key |-> rule_ids_tuple, hit |-> FALSE,
                        ret |-> [none |-> TRUE, lits |-> <<>>]]
       ELSE \E r \in _compute_axp(rule_ids_tuple) :
               /\ axp_cache' = Append(IF Len(axp_cache) >= CacheMaxSize
                                      THEN Tail(axp_cache) ELSE axp_cache,
                                      [key |-> rule_ids_tuple, value |-> r])
               /\ last' = [op |-> "_compute_axp_cached", err |-> "", key |-> rule_ids_tuple,
                           hit |-> FALSE, ret |-> r]
    /\ ncalls' = ncalls + 1
    /\ UNCHANGED <<condition_id_map, id_condition_map, rule_clauses, rule_predictions,
                   feature_names, model_json, tree_rules, id_gen>>

\* CatBoostAXPExplainer._batch_compute_axps: the class defines neither
\* explain_literals nor _literal_to_text, so the first line of the try block
\* raises AttributeError for every row; the handler logs a warning and goes
\* on, and the list returned holds nothing
CatBoostAXPExplainer_batch_compute_axps(X, target_class) ==
    /\ last' = [op |-> "CatBoostAXPExplainer._batch_compute_axps", err |-> "", X |-> X,
                class |-> target_class, ret |-> <<>>, warnings |-> Len(X)]
    /\ Frozen

(***************************************************************************)
(* Specifications.                                                         *)
(***************************************************************************)
\* Any sequence of at most MaxCalls parse and intern calls on one explainer.
Next ==
    \/ ncalls < MaxCalls /\ \E mj \in ModelJsons : fit_from_model_json(mj)
    \/ ncalls < MaxCalls /\ \E tr \in TreeRulesFiles : load_tree_rules(tr)
    \/ ncalls < MaxCalls /\ _process_tree_rules
    \/ ncalls < MaxCalls /\ \E key \in InternKeys : Intern(key)

Spec == Init /\ [][Next]_vars

\* the last call was a parse or intern call, or none was made yet
Loaded == last.op \in {"__init__", "fit_from_model_json", "load_tree_rules",
                       "_process_tree_rules", "_get_condition_literal"}

\* An explainer that is loaded (at most MaxLoads parse or intern calls) and
\* then serves explain-side calls.  An explain-side call changes nothing but
\* the record of the last call, so every explain-side call is explored from
\* the states the load calls leave.
NextServe ==
    \/ Loaded /\ ncalls < MaxLoads /\ \E mj \in ModelJsons : fit_from_model_json(mj)
    \/ Loaded /\ ncalls < MaxLoads /\ \E tr \in TreeRulesFiles : load_tree_rules(tr)
    \/ Loaded /\ ncalls < MaxLoads /\ _process_tree_rules
    \/ Loaded /\ ncalls < MaxLoads /\ \E key \in InternKeys : Intern(key)
    \/ Loaded /\ \E x \in Instances, c \in Classes : SatisfiedRulesCall(x, c)
    \/ Loaded /\ \E x \in Instances, c \in Classes : SatisfiedClausesCall(x, c)
    \/ Loaded /\ \E x \in Instances, c \in Classes : explain_literals(x, c)
    \/ Loaded /\ \E X \in Matrices, c \in Classes : _batch_compute_axps(X, c)
    \/ Loaded /\ \E X \in Matrices : \E p \in [DOMAIN X -> Classes] :
                     validate_explanations(X, p)

SpecServe == Init /\ [][NextServe]_vars

(***************************************************************************)
(* Ensembles for the dataset-level calls: feature A is split at two        *)
(* thresholds, so that one clause can hold two conditions on one feature.  *)
(***************************************************************************)
\* (feature index, border) pairs: A at 3, A at 5, B at 10
BatchSplitConds == {<<0, 3>>, <<0, 5>>, <<1, 10>>}

RECURSIVE JsonTreesOver(_, _)
\* JsonTrees(n) with the split conditions drawn from conds
JsonTreesOver(conds, n) ==
    IF n = 0 THEN JsonLeaves
    ELSE UNION {
           {[split_condition |-> [float_feature_index |-> c[1], border |-> c[2]],
             left_child |-> l, right_child |-> r] :
               c \in conds, l \in JsonTreesOver(conds, k),
               r \in JsonTreesOver(conds, n - 1 - k)} :
           k \in 0..(n - 1)}

RECURSIVE JsonForestsOver(_, _, _)
JsonForestsOver(conds, t, s) ==
    IF t = 0 THEN {<<>>}
    ELSE UNION {
           {<<[nodes |-> tr]>> \o rest :
               tr \in JsonTreesOver(conds, k), rest \in JsonForestsOver(conds, t - 1, s - k)} :
           k \in 0..s}

BatchModelJsons ==
    {[features_info |-> FeaturesInfo, non_oblivious_trees |-> f] :
        f \in UNION {JsonForestsOver(BatchSplitConds, t, MaxSplits) : t \in 0..MaxTrees}}

\* An explainer fitted once from a model JSON that then serves dataset-level
\* calls, also on rows and label sequences that do not fit.
NextBatch ==
    \/ Loaded /\ ncalls < MaxLoads /\ \E mj \in BatchModelJsons : fit_from_model_json(mj)
    \/ Loaded /\ \E x \in Rows, pc \in {<<>>} \cup {<<c>> : c \in Classes} :
                     explain_instance(x, pc)
    \/ Loaded /\ \E X \in RowMatrices, given \in BOOLEAN :
                     \E p \in (IF given THEN LabelLists ELSE {<<>>}) :
                         explain_dataset(X, p, given)
    \/ Loaded /\ \E x \in Instances, c \in Classes : SatisfiedRulesCall(x, c)
    \/ Loaded /\ \E x \in Instances, c \in Classes : SatisfiedClausesCall(x, c)
    \/ Loaded /\ \E x \in Instances, c \in Classes : explain_literals(x, c)
    \/ Loaded /\ \E X \in RowMatrices, p \in AnyLabelLists : validate_input_data(X, p)
    \/ Loaded /\ \E X \in RowMatrices, c \in Classes : _batch_compute_axps(X, c)
    \/ Loaded /\ \E X \in RowMatrices, c \in Classes :
                     CatBoostAXPExplainer_batch_compute_axps(X, c)
    \/ Loaded /\ \E X \in RowMatrices, c \in Classes : ComputeFeatureMetricsCall(X, c)
    \/ Loaded /\ \E X \in RowMatrices, p \in LabelLists : compute_feature_attribution(X, p)
    \/ Loaded /\ \E X \in RowMatrices, b \in 0..(MaxBatchRows + 1) :
                     process_large_dataset(X, b)

SpecBatch == Init /\ [][NextBatch]_vars

\* An explainer that is loaded and then asked for cached hitting sets, at
\* most MaxCachedCalls times.
NextCache ==
    \/ Loaded /\ ncalls < MaxLoads /\ \E mj \in ModelJsons : fit_from_model_json(mj)
    \/ Loaded /\ ncalls < MaxLoads /\ \E tr \in TreeRulesFiles : load_tree_rules(tr)
    \/ Loaded /\ ncalls < MaxLoads /\ _process_tree_rules
    \/ Loaded /\ ncalls < MaxLoads /\ \E key \in InternKeys : Intern(key)
    \/ ncalls < MaxLoads + MaxCachedCalls /\ \E t \in RuleIdTuples : _compute_axp_cached(t)

SpecCache == Init /\ [][NextCache]_vars

(***************************************************************************)
(* The two-stump ensemble: tree 1 splits on A at 5, tree 2 on B at 10,     *)
(* served with feature values on both sides of either border.              *)
(***************************************************************************)
ScenarioValues == {2, 7, 12}
ScenarioInstances == [{c[1] : c \in SplitConds} -> ScenarioValues]

\* An explainer fitted once from a model JSON that then answers
\* _satisfied_rules and explain_literals for the scenario's instances.
NextScenario ==
    \/ Loaded /\ ncalls < MaxLoads /\ \E mj \in ModelJsons : fit_from_model_json(mj)
    \/ Loaded /\ \E x \in ScenarioInstances, c \in Classes : SatisfiedRulesCall(x, c)
    \/ Loaded /\ \E x \in ScenarioInstances, c \in Classes : explain_literals(x, c)

SpecScenario == Init /\ [][NextScenario]_vars

(***************************************************************************)
(* Tree-rules ensembles with up to MaxCatSplits splits of any kind, served *)
(* with feature values below, between and above the split values.          *)
(***************************************************************************)
\* split nodes per tree-rules ensemble of the categorical explorations
MaxCatSplits == 2

CategoricalRuleFiles ==
    {[float_features |-> FloatFeatures, trees |-> f] :
        f \in UNION {RuleForests(t, MaxCatSplits) : t \in 1..MaxTrees}}

\* An explainer that loads one tree-rules file and then matches rules.
NextCategorical ==
    \/ Loaded /\ ncalls < MaxLoads /\ \E tr \in CategoricalRuleFiles : load_tree_rules(tr)
    \/ Loaded /\ \E x \in ScenarioInstances, c \in Classes : SatisfiedRulesCall(x, c)
    \/ Loaded /\ \E x \in ScenarioInstances, c \in Classes : SatisfiedClausesCall(x, c)

SpecCategorical == Init /\ [][NextCategorical]_vars

(***************************************************************************)
(* The permutation test: test_feature_significance over a pandas           *)
(* DataFrame (it reads X.columns).                                         *)
(***************************************************************************)
\* permutation trials per (class, feature)
MaxPermutations == 2

\* the column labels of a frame: none, or the feature ids
FrameColumns == {<<>>, <<"A", "B">>}

\* DataFrames of at most MaxBatchRows rows with a label per row
DataFrames ==
    {[columns |-> <<>>, rows |-> [i \in 1..n |-> EmptyDict]] : n \in 0..MaxBatchRows}
    \cup {[columns |-> <<"A", "B">>, rows |-> r] :
             r \in UNION {[1..n -> Instances] : n \in 0..MaxBatchRows}}

\* _batch_compute_axps(X_class, label) on a DataFrame: enumerate(X) yields the
\* column labels, so x is a str.  The first rule of the class that has a
\* literal reads x[feat_idx]: one character, which <= and > refuse to compare
\* with a number (TypeError), or no character at all (IndexError).  A rule
\* with an empty clause is matched without reading x, and its empty clause
\* has no hitting set, so no record is ever produced.
ColumnLabelError(name, label) ==
    LET withLits == {i \in DOMAIN rule_clauses :
                        rule_predictions[i] = label /\ rule_clauses[i] # <<>>}
    IN IF withLits = {} THEN ""
       ELSE LET i == CHOOSE j \in withLits : \A k \in withLits : j <= k
                key == id_condition_map[rule_clauses[i][1]]
            IN IF key[1] < Len(name) THEN "TypeError" ELSE "IndexError"

\* compute_feature_attribution(X, predictions) on a DataFrame: the error of
\* the first class label (0, then 1) whose batch call fails on the first
\* column label; without an error both tables are empty
FrameAttributionError(X) ==
    IF X.columns = <<>> THEN ""
    ELSE IF ColumnLabelError(X.columns[1], 0) # "" THEN ColumnLabelError(X.columns[1], 0)
    ELSE ColumnLabelError(X.columns[1], 1)

\* test_feature_significance(X, predictions, n_permutations, alpha): the base
\* attribution fails, or its tables are empty and the first look-up of the
\* 'feature' column (of the permuted table at line 966 when n_permutations > 0,
\* of the base table at line 971 otherwise) raises KeyError; a frame without
\* columns gives the two empty dictionaries.  alpha only decides what is printed.
TestFeatureSignificanceResult(X, predictions, n_permutations) ==
    IF FrameAttributionError(X) # ""
    THEN [err |-> FrameAttributionError(X), ret |-> EmptyDict]
    ELSE IF X.columns = <<>>
    THEN [err |-> "", ret |-> (0 :> EmptyDict) @@ (1 :> EmptyDict)]
    ELSE [err |-> "KeyError", ret |-> EmptyDict]

test_feature_significance(X, predictions, n_permutations) ==
    /\ LET r == TestFeatureSignificanceResult(X, predictions, n_permutations)
       IN last' = [op |-> "test_feature_significance", err |-> r.err, X |-> X,
                   predictions |-> predictions, n_permutations |-> n_permutations,
                   ret |-> r.ret]
    /\ Frozen

\* An explainer fitted once from a model JSON that then runs permutation tests.
NextSignificance ==
    \/ Loaded /\ ncalls < MaxLoads /\ \E mj \in ModelJsons : fit_from_model_json(mj)
    \/ Loaded /\ \E X \in DataFrames, n \in 0..MaxPermutations :
                     \E p \in [DOMAIN X.rows -> Classes] :
                         test_feature_significance(X, p, n)

SpecSignificance == Init /\ [][NextSignificance]_vars

(***************************************************************************)
(* Parses followed by the rendering of literals issued at any time.        *)
(***************************************************************************)
\* Any sequence of at most MaxCalls fit and intern calls, with literals that
\* were issued so far (every id below the generator) rendered in between.
NextStale ==
    \/ ncalls < MaxCalls /\ \E mj \in ModelJsons : fit_from_model_json(mj)
    \/ ncalls < MaxCalls /\ \E key \in InternKeys : Intern(key)
    \/ \E lit \in 1..(id_gen - 1) : LiteralToTextCall(lit)

SpecStale == Init /\ [][NextStale]_vars

(***************************************************************************)
(* Parses and cached solver calls on one explainer, in any order.          *)
(***************************************************************************)
\* fit and cached solver calls made on one explainer
MaxRecacheCalls == 4

\* ensembles of one tree with at most one split
SmallModelJsons ==
    {[features_info |-> FeaturesInfo, non_oblivious_trees |-> <<[nodes |-> tr]>>] :
        tr \in JsonTrees(0) \cup JsonTrees(1)}

NextRecache ==
    \/ ncalls < MaxRecacheCalls /\ \E mj \in SmallModelJsons : fit_from_model_json(mj)
    \/ ncalls < MaxRecacheCalls /\ \E t \in RuleIdTuples : _compute_axp_cached(t)

SpecRecache == Init /\ [][NextRecache]_vars

(***************************************************************************)
(* Parses that may fail half way: model-JSON trees in which a node may     *)
(* carry neither leaf_value nor split_condition.                           *)
(***************************************************************************)
RECURSIVE BrokenJsonTrees(_)
\* the trees with exactly n split nodes whose terminal nodes are leaves or
\* nodes that are neither a leaf nor a split
BrokenJsonTrees(n) ==
    IF n = 0 THEN JsonLeaves \cup {[node_index |-> 0]}
    ELSE UNION {
           {[split_condition |-> [float_feature_index |-> c[1], border |-> c[2]],
             left_child |-> l, right_child |-> r] :
               c \in SplitConds, l \in BrokenJsonTrees(k), r \in BrokenJsonTrees(n - 1 - k)} :
           k \in 0..(n - 1)}

\* ensembles of MaxTrees trees of at most one split each
BrokenModelJsons ==
    {[features_info |-> FeaturesInfo, non_oblivious_trees |-> f] :
        f \in [1..MaxTrees -> {[nodes |-> tr] : tr \in BrokenJsonTrees(0) \cup BrokenJsonTrees(1)}]}

\* Any sequence of at most MaxCalls parse and intern calls, the model JSON
\* possibly broken.
NextBroken ==
    \/ ncalls < MaxCalls /\ \E mj \in BrokenModelJsons \cup ModelJsons : fit_from_model_json(mj)
    \/ ncalls < MaxCalls /\ \E tr \in TreeRulesFiles : load_tree_rules(tr)
    \/ ncalls < MaxCalls /\ _process_tree_rules
    \/ ncalls < MaxCalls /\ \E key \in InternKeys : Intern(key)

SpecBroken == Init /\ [][NextBroken]_vars

(***************************************************************************)
(* An explainer fitted up to MaxCalls times, a later description possibly  *)
(* rejected, that then answers explain calls.                              *)
(***************************************************************************)
NextRefit ==
    \/ Loaded /\ ncalls < MaxCalls /\ \E mj \in ModelJsons : fit_from_model_json(mj)
    \/ Loaded /\ \E x \in Instances, c \in Classes : SatisfiedRulesCall(x, c)
    \/ Loaded /\ \E x \in Instances, c \in Classes : explain_literals(x, c)

SpecRefit == Init /\ [][NextRefit]_vars

(***************************************************************************)
(* Properties.                                                             *)
(***************************************************************************)
ParseOps == {"fit_from_model_json", "load_tree_rules", "_process_tree_rules"}
RuleParseOps == {"load_tree_rules", "_process_tree_rules"}

\* a condition is true of an instance
TrueOn(x, key) ==
    \/ key[3] = 0 /\ x[key[1]] <= key[2]
    \/ key[3] = 1 /\ x[key[1]] > key[2]

\* the rules (numbered from 1) that predict c and whose conditions all hold on x
Matched(x, c) ==
    {i \in DOMAIN rule_clauses :
        /\ rule_predictions[i] = c
        /\ \A l \in Range(rule_clauses[i]) : TrueOn(x, id_condition_map[l])}

\* the literal set H meets the clause of every rule in M
HitsAll(H, M) == \A i \in M : Range(rule_clauses[i]) \cap H # {}

\* the value returned is a list of distinct literals that is a minimal hitting
\* set of the clauses of the rules in M
MinimalExplanation(ret, M) ==
    /\ ~ret.none
    /\ \A j, k \in DOMAIN ret.lits : j # k => ret.lits[j] # ret.lits[k]
    /\ HitsAll(Range(ret.lits), M)
    /\ \A G \in SUBSET Range(ret.lits) : G # Range(ret.lits) => ~HitsAll(G, M)

\* C1 as stated: whenever at least one rule is matched, explain_literals
\* returns a literal set that meets every matched clause, and no strict subset
\* of it does.
C1_AnyMatchedRules ==
    (last.op = "explain_literals" /\ Matched(last.x, last.class) # {})
        => MinimalExplanation(last.ret, Matched(last.x, last.class))

\* C1 amended: whenever at least one rule is matched and no matched rule has
\* an empty clause, explain_literals returns a literal set that meets every
\* matched clause, and no strict subset of it does.
C1_NonEmptyMatchedClauses ==
    (/\ last.op = "explain_literals"
     /\ Matched(last.x, last.class) # {}
     /\ \A i \in Matched(last.x, last.class) : rule_clauses[i] # <<>>)
        => MinimalExplanation(last.ret, Matched(last.x, last.class))

\* two rules with different one-literal clauses are matched and the
\* explanation holds both literals
C1_Witness ==
    /\ last.op = "explain_literals"
    /\ Cardinality(Matched(last.x, last.class)) = 2
    /\ \A i \in Matched(last.x, last.class) : rule_clauses[i] # <<>>
    /\ Len(last.ret.lits) = 2

\* C2: _satisfied_rules returns, in increasing order and once each, exactly the
\* indexes (from 0) of the rules that predict the target class and whose
\* literals all hold (direction 0: value <= threshold, direction 1: value >
\* threshold); _satisfied_clauses_for_instance returns the clauses of exactly
\* these rules, in rule order.
C2_MatchingExact ==
    /\ last.op = "_satisfied_rules" =>
          /\ \A j, k \in DOMAIN last.ret : j < k => last.ret[j] < last.ret[k]
          /\ Range(last.ret) = {i - 1 : i \in Matched(last.x, last.class)}
    /\ last.op = "_satisfied_clauses_for_instance" =>
          /\ Len(last.ret) = Cardinality(Matched(last.x, last.class))
          /\ \A k \in DOMAIN last.ret :
                \E i \in Matched(last.x, last.class) :
                    /\ last.ret[k] = rule_clauses[i]
                    /\ Cardinality({j \in Matched(last.x, last.class) : j < i}) = k - 1

\* a rule is matched by a value equal to its threshold, and another rule of
\* the target class is not matched
C2_Witness ==
    /\ last.op = "_satisfied_rules"
    /\ \E i \in Matched(last.x, last.class) :
          \E l \in Range(rule_clauses[i]) :
              /\ id_condition_map[l][3] = 0
              /\ last.x[id_condition_map[l][1]] = id_condition_map[l][2]
    /\ \E i \in DOMAIN rule_clauses :
          rule_predictions[i] = last.class /\ i \notin Matched(last.x, last.class)

\* ---- what a parse is to produce ---------------------------------------------
Label(v) == IF v > 0 THEN 1 ELSE 0

RECURSIVE JsonLeafRules(_, _)
\* the leaves of a model-JSON tree, left before right, each with the
\* conditions on its path from the root
JsonLeafRules(node, path) ==
    IF "leaf_value" \in DOMAIN node
    THEN <<[conds |-> path, label |-> Label(node.leaf_value)]>>
    ELSE LET f == node.split_condition.float_feature_index
             t == node.split_condition.border
         IN JsonLeafRules(node.left_child, path \o <<<<f, t, 0>>>>)
            \o JsonLeafRules(node.right_child, path \o <<<<f, t, 1>>>>)

RECURSIVE JsonForestRules(_)
JsonForestRules(trees) ==
    IF trees = <<>> THEN <<>>
    ELSE JsonLeafRules(trees[1].nodes, <<>>) \o JsonForestRules(Tail(trees))

\* the (index, value) a tree-rules split tests
SplitTest(split) ==
    CASE split.split_type = "FloatFeature" -> <<split.float_feature_index, split.border>>
      [] split.split_type = "OneHotFeature" -> <<split.cat_feature_index, split.value>>
      [] OTHER -> <<split.split_index, split.border>>

RECURSIVE RuleLeafRules(_, _)
\* the leaves of a tree-rules tree, left before right, with their paths
RuleLeafRules(node, path) ==
    IF "value" \in DOMAIN node
    THEN <<[conds |-> path, label |-> Label(node.value)]>>
    ELSE IF "split" \notin DOMAIN node THEN <<>>
    ELSE LET c == SplitTest(node.split)
         IN RuleLeafRules(node.left, path \o <<<<c[1], c[2], 0>>>>)
            \o RuleLeafRules(node.right, path \o <<<<c[1], c[2], 1>>>>)

RECURSIVE RuleForestRules(_)
RuleForestRules(trees) ==
    IF trees = <<>> THEN <<>>
    ELSE RuleLeafRules(trees[1], <<>>) \o RuleForestRules(Tail(trees))

RECURSIVE Malformed(_)
\* the tree holds a node that is neither a leaf nor a split of a supported kind
Malformed(node) ==
    IF "value" \in DOMAIN node THEN FALSE
    ELSE IF "split" \notin DOMAIN node THEN TRUE
    ELSE \/ node.split.split_type \notin {"FloatFeature", "OneHotFeature", "OnlineCtr"}
         \/ Malformed(node.left)
         \/ Malformed(node.right)

TreesOf(tr) == IF "trees" \in DOMAIN tr THEN tr.trees ELSE <<>>

HasMalformedNode(tr) == \E i \in DOMAIN TreesOf(tr) : Malformed(TreesOf(tr)[i])

\* the rule set held by the explainer, literals resolved through the registry
ParsedRules ==
    [i \in DOMAIN rule_clauses |->
        [conds |-> [k \in DOMAIN rule_clauses[i] |-> id_condition_map[rule_clauses[i][k]]],
         label |-> rule_predictions[i]]]

\* the leaf rules of the description the last parse call was given
NewRules ==
    IF last.op = "fit_from_model_json"
    THEN (IF "non_oblivious_trees" \in DOMAIN model_json
          THEN JsonForestRules(model_json.non_oblivious_trees) ELSE <<>>)
    ELSE RuleForestRules(TreesOf(tree_rules))

CondsOf(rules) == UNION {Range(rules[i].conds) : i \in DOMAIN rules}

\* C3 as stated: a successful parse leaves exactly one rule per leaf of every
\* tree, tree by tree and left before right; each clause resolves to the
\* conditions of the leaf's path in root-to-leaf order (direction 0 to the
\* left, 1 to the right) and the label is 1 for a leaf value > 0, else 0.
C3_OneRulePerLeaf ==
    (last.op \in ParseOps /\ last.err = "")
        => /\ Len(rule_predictions) = Len(rule_clauses)
           /\ ParsedRules = NewRules

InverseMaps ==
    /\ \A k \in DOMAIN condition_id_map :
          /\ condition_id_map[k] \in DOMAIN id_condition_map
          /\ id_condition_map[condition_id_map[k]] = k
    /\ \A l \in DOMAIN id_condition_map :
          /\ id_condition_map[l] \in DOMAIN condition_id_map
          /\ condition_id_map[id_condition_map[l]] = l

\* a direct _get_condition_literal call returns a literal that resolves to its
\* triple, and for a registered triple the registered literal, creating nothing
InternStep ==
    (last'.op = "_get_condition_literal" /\ ncalls' = ncalls + 1)
        => /\ id_condition_map'[last'.ret] = last'.key
           /\ condition_id_map'[last'.key] = last'.ret
           /\ last'.key \in DOMAIN condition_id_map
                 => /\ last'.ret = condition_id_map[last'.key]
                    /\ UNCHANGED <<condition_id_map, id_condition_map, id_gen>>

\* C4: in every state reached by intern and parse calls condition_id_map and
\* id_condition_map are inverse to each other (so no two triples share a
\* literal), and interning resolves back to its triple and reuses the literal
\* of a registered triple without creating one.
C4_RegistryBijective == []InverseMaps /\ [][InternStep]_vars

\* a registered triple was interned again and got back an older literal
C4_Witness ==
    /\ last.op = "_get_condition_literal"
    /\ last.ret + 1 < id_gen
    /\ Cardinality(DOMAIN condition_id_map) = 2

\* C5 as stated: after each parse the literal ids are exactly 1..n for the n
\* distinct conditions of the parsed ensemble.
C5_IdsFromOne ==
    (last.op \in ParseOps /\ last.err = "")
        => DOMAIN id_condition_map = 1..Cardinality(DOMAIN condition_id_map)

\* C6: after every parse call the registry and the rule set hold nothing but
\* what the newly given description yields: after a failed parse they are
\* empty, otherwise every rule is a leaf rule of the new description (all of
\* them, in order, when it has no malformed node) and the registered
\* conditions and literals are exactly those of the rules held.
C6_NothingStale ==
    last.op \in ParseOps =>
        /\ last.err # "" => rule_clauses = <<>> /\ DOMAIN condition_id_map = {}
        /\ Range(ParsedRules) \subseteq Range(NewRules)
        /\ ~HasMalformedNode(tree_rules) \/ last.op = "fit_from_model_json"
              => ParsedRules = NewRules
        /\ DOMAIN condition_id_map = CondsOf(ParsedRules)
        /\ DOMAIN id_condition_map = UNION {Range(rule_clauses[i]) : i \in DOMAIN rule_clauses}
        /\ Len(rule_predictions) = Len(rule_clauses)

\* tree rules were loaded over a model JSON that had conditions the new
\* ensemble does not have
C6_Witness ==
    /\ last.op = "load_tree_rules"
    /\ last.err = ""
    /\ rule_clauses # <<>>
    /\ DOMAIN condition_id_map # {}
    /\ "non_oblivious_trees" \in DOMAIN model_json
    /\ CondsOf(JsonForestRules(model_json.non_oblivious_trees)) \ DOMAIN condition_id_map # {}

\* C7 as stated: every parse entry point rejects a description that declares
\* oblivious trees with an error and emits no rule for it.
C7_ObliviousRejected ==
    /\ (last.op = "fit_from_model_json" /\ "oblivious_trees" \in DOMAIN model_json)
          => last.err # "" /\ rule_clauses = <<>>
    /\ (last.op \in RuleParseOps /\ "oblivious_trees" \in DOMAIN tree_rules)
          => last.err # "" /\ rule_clauses = <<>>

\* C8 as stated: parsing tree rules that hold a node that is neither a leaf nor
\* a split of a supported kind fails with an error.
C8_MalformedRejected ==
    (last.op \in RuleParseOps /\ HasMalformedNode(tree_rules)) => last.err # ""

\* the rows of X labelled c, and those of them that match a rule for c
RowsOf(X, p, c) == {i \in DOMAIN X : p[i] = c}
ExplainedRowsOf(X, p, c) == {i \in RowsOf(X, p, c) : Matched(X[i], c) # {}}

\* C9 as stated: an instance matching no rule gets an empty explanation and
\* no error, and validate_explanations reports for each class the coverage
\* (instances with a non-empty explanation) / (instances of the class) and
\* flags the class when that ratio is below min_coverage.
C9_CoverageCountsUnexplained ==
    /\ (last.op = "explain_literals" /\ Matched(last.x, last.class) = {})
          => last.err = "" /\ ~last.ret.none /\ last.ret.lits = <<>>
    /\ (last.op = "validate_explanations" /\ last.err = "")
          => \A c \in Classes :
                LET total == Cardinality(RowsOf(last.X, last.predictions, c))
                    explained == Cardinality(ExplainedRowsOf(last.X, last.predictions, c))
                IN /\ last.coverage[c][1] * total = explained * last.coverage[c][2]
                   /\ c \in last.warned <=> explained * ThresholdDen < ThresholdNum * total

\* C10 as stated: the batch explainer's output has a record for every input
\* row, also for a row that matches no rule.
C10_NoRowDropped ==
    last.op = "_batch_compute_axps"
        => \A i \in 0..(Len(last.X) - 1) :
              \E k \in DOMAIN last.ret : last.ret[k].instance = i

\* C11 as stated: explain_dataset called with a feature matrix and a label
\* sequence of different lengths fails with an error and returns no result
\* row; it never returns explanations for a prefix of the rows.
C11_LengthMismatchRejected ==
    (/\ last.op = "explain_dataset"
     /\ last.given
     /\ Len(last.X) # Len(last.predictions))
        => last.err # "" /\ last.ret = <<>>

\* the table a result holds for class c: none is an empty table
TableOf(ret, c) == IF c \in DOMAIN ret THEN ret[c] ELSE {}

\* the tables a single pass over X can give, under any labelling of its rows
SinglePassTables(X) ==
    {s.tables : s \in {r \in UNION {ComputeFeatureAttributionResult(X, p) :
                                       p \in [DOMAIN X -> Classes]} : r.err = ""}}

\* C12 as stated: for every dataset and batch size, process_large_dataset
\* produces the per-class attribution tables of a single pass of
\* compute_feature_attribution over the whole dataset.
C12_ChunkedEqualsSinglePass ==
    (/\ last.op = "process_large_dataset"
     /\ last.batch_size >= 1
     /\ SinglePassTables(last.X) # {})
        => /\ last.err = ""
           /\ \E t \in SinglePassTables(last.X) :
                 \A c \in Classes : TableOf(last.ret, c) = t[c]

\* the features named in one explanation
FeaturesIn(axp) == {axp[k][1] : k \in DOMAIN axp}

\* the records of instance i among the explanation records
RecordsOf(axps, i) == {k \in DOMAIN axps : axps[k].instance = i}

\* the instances for which f is in every one of their explanations
EssentialFor(axps, f) ==
    {i \in {axps[k].instance : k \in DOMAIN axps} :
        \A k \in RecordsOf(axps, i) : f \in FeaturesIn(axps[k].axp)}

\* C13 as stated: the support of a feature is the number of explanations,
\* over all instances, that contain the feature; an instance with k
\* explanations containing it contributes k.
C13_SupportCountsExplanations ==
    (last.op = "_compute_feature_metrics" /\ last.err = "")
        => \A row \in last.ret :
              row.support = Cardinality({k \in DOMAIN last.axps :
                                            row.feature \in FeaturesIn(last.axps[k].axp)})

\* C14: a feature is counted essential for exactly the instances that have
\* it in every one of their explanations (the intersection of the
\* explanations' feature sets, which may be empty), and the table has a row
\* for every feature of any explanation.
C14_EssentialIsIntersection ==
    (last.op = "_compute_feature_metrics" /\ last.err = "")
        => /\ {row.feature : row \in last.ret}
                 = UNION {FeaturesIn(last.axps[k].axp) : k \in DOMAIN last.axps}
           /\ \A row \in last.ret :
                 row.essentiality_ratio[1]
                    = Cardinality(EssentialFor(last.axps, row.feature))

\* two instances have explanations; one of them has two explanations, which
\* share their feature, and that feature is essential for it
C14_Witness ==
    /\ last.op = "_compute_feature_metrics"
    /\ last.err = ""
    /\ Cardinality({last.axps[k].instance : k \in DOMAIN last.axps}) = 2
    /\ \E i \in {last.axps[k].instance : k \in DOMAIN last.axps} :
          /\ Cardinality(RecordsOf(last.axps, i)) = 2
          /\ \E row \in last.ret : i \in EssentialFor(last.axps, row.feature)

\* C15 as stated: the essentiality ratio of a feature is its essential-
\* occurrence count divided by the number of instances of the class that
\* were submitted, those that matched no rule included.
C15_RatioOverAllInstances ==
    (last.op = "_compute_feature_metrics" /\ last.err = "")
        => \A row \in last.ret :
              row.essentiality_ratio[1] * Len(last.X)
                 = Cardinality(EssentialFor(last.axps, row.feature))
                      * row.essentiality_ratio[2]

ExplainOps == {"_satisfied_rules", "_satisfied_clauses_for_instance", "explain_literals",
               "explain_instance", "explain_dataset", "_batch_compute_axps",
               "_compute_feature_metrics"}

\* C16: every step of an explain-side operation (matching, the solver and the
\* enumeration inside explain_literals and _batch_compute_axps,
\* explain_instance, explain_dataset, _compute_feature_metrics) leaves
\* rule_clauses, rule_predictions, condition_id_map, id_condition_map and the
\* id generator as they were.
C16_ExplainSideFrozen ==
    [][last'.op \in ExplainOps
         => UNCHANGED <<rule_clauses, rule_predictions, condition_id_map,
                        id_condition_map, id_gen>>]_vars

\* a batch call returned explanation records from a non-empty registry
C16_Witness ==
    /\ last.op = "_batch_compute_axps"
    /\ last.err = ""
    /\ Len(last.ret) >= 2
    /\ id_gen > 2

\* two tuples hold the same indexes, in any order
SameIndices(a, b) ==
    /\ Len(a) = Len(b)
    /\ \A v \in Range(a) \cup Range(b) :
          Cardinality({j \in DOMAIN a : a[j] = v}) = Cardinality({j \in DOMAIN b : b[j] = v})

CacheBounded == Len(axp_cache) <= CacheMaxSize

\* a successful call of the cached solver: a tuple with the indexes of a
\* cached tuple is a hit and adds no entry; a miss on a full cache evicts the
\* least recently used entry
CacheStep ==
    (last'.op = "_compute_axp_cached" /\ ncalls' = ncalls + 1 /\ last'.err = "")
        => /\ (\E k \in DOMAIN axp_cache : SameIndices(axp_cache[k].key, last'.key))
                 => last'.hit /\ Len(axp_cache') = Len(axp_cache)
           /\ (Len(axp_cache) = CacheMaxSize /\ ~last'.hit)
                 => /\ Len(axp_cache') = CacheMaxSize
                    /\ \A j \in 1..(CacheMaxSize - 1) : axp_cache'[j] = axp_cache[j + 1]

\* C17 as stated: the cache of _compute_axp_cached never holds more than 128
\* entries, evicts the least recently used entry when full, and two calls
\* whose tuples hold the same indexes in a different order use one entry.
C17_CacheBoundedCanonical == []CacheBounded /\ [][CacheStep]_vars

BatchOps == {"_batch_compute_axps", "CatBoostAXPExplainer._batch_compute_axps"}

\* explaining the row for class c raises: a literal of a rule for c reads a
\* position the row does not have
RowFails(x, c) ==
    \E i \in DOMAIN rule_clauses :
        /\ rule_predictions[i] = c
        /\ \E k \in DOMAIN rule_clauses[i] :
              /\ id_condition_map[rule_clauses[i][k]][1] \notin DOMAIN x
              /\ \A j \in 1..(k - 1) :
                    /\ id_condition_map[rule_clauses[i][j]][1] \in DOMAIN x
                    /\ TrueOn(x, id_condition_map[rule_clauses[i][j]])

\* C18 as stated: in a batch run the error of one instance is caught and
\* skipped, so the run ends without an error, and every remaining instance
\* that has an explanation (it matches a rule, and no rule it matches has an
\* empty clause) has a record in the result.
C18_RowErrorsSkipped ==
    last.op \in BatchOps =>
        /\ last.err = ""
        /\ last.op = "_batch_compute_axps" =>
              \A i \in DOMAIN last.X :
                  (/\ ~RowFails(last.X[i], last.class)
                   /\ Matched(last.X[i], last.class) # {}
                   /\ \A m \in Matched(last.X[i], last.class) : rule_clauses[m] # <<>>)
                     => \E k \in DOMAIN last.ret : last.ret[k].instance = i - 1


\* a tree of one split on feature feat at border, class 0 on the left leaf
\* and class 1 on the right leaf
Stump(feat, border) ==
    [nodes |-> [split_condition |-> [float_feature_index |-> feat, border |-> border],
                left_child |-> [leaf_value |-> 0], right_child |-> [leaf_value |-> 2]]]

ScenarioModel ==
    [features_info |-> FeaturesInfo, non_oblivious_trees |-> <<Stump(0, 5), Stump(1, 10)>>]

\* the texts of the literals explain_literals returned
ExplanationTexts == {_literal_to_text(last.ret.lits[k]) : k \in DOMAIN last.ret.lits}

\* the last call was op on the instance {A: a, B: b} for class 1
ScenarioCall(op, a, b) ==
    /\ model_json = ScenarioModel
    /\ last.op = op
    /\ last.class = 1
    /\ last.x = (0 :> a) @@ (1 :> b)

\* C19: on the ensemble of the stump on A at 5 and the stump on B at 10, both
\* predicting class 1 on the right leaf, the instance {A: 7, B: 12} matches
\* both right-leaf rules for class 1 and its explanation is {A > 5, B > 10};
\* the instance {A: 2, B: 12} matches tree 2's right-leaf rule alone and its
\* explanation is {B > 10}.
C19_TwoStumpScenario ==
    /\ ScenarioCall("_satisfied_rules", 7, 12) => last.ret = <<1, 3>>
    /\ ScenarioCall("explain_literals", 7, 12) =>
          /\ ~last.ret.none
          /\ Len(last.ret.lits) = 2
          /\ ExplanationTexts = {<<"A", ">", 5>>, <<"B", ">", 10>>}
    /\ ScenarioCall("_satisfied_rules", 2, 12) => last.ret = <<3>>
    /\ ScenarioCall("explain_literals", 2, 12) =>
          /\ ~last.ret.none
          /\ Len(last.ret.lits) = 1
          /\ ExplanationTexts = {<<"B", ">", 10>>}

\* explain_literals has answered for {A: 2, B: 12} and class 1 on the
\* scenario's ensemble, where only tree 2's right leaf matches
C19_Witness ==
    /\ ScenarioCall("explain_literals", 2, 12)
    /\ _satisfied_rules(last.x, 1) = <<3>>
    /\ rule_predictions = <<0, 1, 0, 1>>


\* the literal sets that meet the clause of every rule in M and lose that
\* property when any one literal is removed
MinimalHitsOf(M) ==
    {H \in SUBSET UNION {Range(rule_clauses[i]) : i \in M} :
        /\ HitsAll(H, M)
        /\ \A l \in H : ~HitsAll(H \ {l}, M)}

\* the texts of a set of literals
TextsOf(H) == {_literal_to_text(l) : l \in H}

\* the records of the last batch call for row i (from 1), in order
RowRecordsOf(i) == SelectSeq(last.ret, LAMBDA r : r.instance = i - 1)

\* C20: for every row with at least one matched clause, the explanations
\* _batch_compute_axps records for it are exactly the inclusion-minimal
\* hitting sets of its matched clauses, each recorded once: no two records of
\* the row are equal as sets, none is missing and none is non-minimal.
C20_AllMinimalHittingSetsOnce ==
    (last.op = "_batch_compute_axps" /\ last.err = "") =>
        \A i \in DOMAIN last.X :
            (last.X[i] \in Instances /\ Matched(last.X[i], last.class) # {}) =>
                LET recs == RowRecordsOf(i)
                IN /\ {Range(recs[k].axp) : k \in DOMAIN recs}
                         = {TextsOf(H) : H \in MinimalHitsOf(Matched(last.X[i], last.class))}
                   /\ \A j, k \in DOMAIN recs :
                         j # k => Range(recs[j].axp) # Range(recs[k].axp)
                   /\ \A k \in DOMAIN recs :
                         Len(recs[k].axp) = Cardinality(Range(recs[k].axp))

\* a batch call recorded two different explanations for its first row, whose
\* matched clauses have more than one minimal hitting set
C20_Witness ==
    /\ last.op = "_batch_compute_axps"
    /\ last.err = ""
    /\ Len(last.X) >= 1
    /\ last.X[1] \in Instances
    /\ Cardinality(MinimalHitsOf(Matched(last.X[1], last.class))) >= 2
    /\ Len(RowRecordsOf(1)) >= 2


RECURSIVE JsonLeafDepths(_, _)
\* the number of splits above each leaf of a model-JSON tree, left before right
JsonLeafDepths(node, d) ==
    IF "leaf_value" \in DOMAIN node THEN <<d>>
    ELSE JsonLeafDepths(node.left_child, d + 1) \o JsonLeafDepths(node.right_child, d + 1)

RECURSIVE RuleLeafDepths(_, _)
\* the same for a tree-rules tree; nothing below a node that is neither a leaf
\* nor a supported split yields a rule
RuleLeafDepths(node, d) ==
    IF "value" \in DOMAIN node THEN <<d>>
    ELSE IF "split" \notin DOMAIN node THEN <<>>
    ELSE IF node.split.split_type \notin {"FloatFeature", "OneHotFeature", "OnlineCtr"}
    THEN <<>>
    ELSE RuleLeafDepths(node.left, d + 1) \o RuleLeafDepths(node.right, d + 1)

RECURSIVE ForestLeafDepths(_, _)
\* the leaf depths of a sequence of trees, tree by tree
ForestLeafDepths(trees, json) ==
    IF trees = <<>> THEN <<>>
    ELSE (IF json THEN JsonLeafDepths(trees[1].nodes, 0) ELSE RuleLeafDepths(trees[1], 0))
         \o ForestLeafDepths(Tail(trees), json)

\* the trees of the description the last parse call was given
LastTrees ==
    IF last.op = "fit_from_model_json"
    THEN (IF "non_oblivious_trees" \in DOMAIN model_json
          THEN model_json.non_oblivious_trees ELSE <<>>)
    ELSE TreesOf(tree_rules)

\* the trees of the last description that consist of a single leaf
LoneLeafTrees ==
    {t \in DOMAIN LastTrees :
        IF last.op = "fit_from_model_json"
        THEN "leaf_value" \in DOMAIN LastTrees[t].nodes
        ELSE "value" \in DOMAIN LastTrees[t]}

\* C21: after a successful parse the length of every rule's clause is the
\* depth of its leaf (the number of splits on the path from the root), and
\* the empty clauses are those of the trees that consist of a single leaf.
C21_ClauseLengthIsDepth ==
    (last.op \in ParseOps /\ last.err = "") =>
        /\ [i \in DOMAIN rule_clauses |-> Len(rule_clauses[i])]
              = ForestLeafDepths(LastTrees, last.op = "fit_from_model_json")
        /\ Cardinality({i \in DOMAIN rule_clauses : rule_clauses[i] = <<>>})
              = Cardinality(LoneLeafTrees)

\* a parse of a single-leaf tree and of a tree that tests the same condition
\* twice on one path: an empty clause and a clause of two equal literals
C21_Witness ==
    /\ last.op = "fit_from_model_json"
    /\ last.err = ""
    /\ \E i \in DOMAIN rule_clauses : rule_clauses[i] = <<>>
    /\ \E i \in DOMAIN rule_clauses :
          Len(rule_clauses[i]) = 2 /\ rule_clauses[i][1] = rule_clauses[i][2]


RECURSIVE RuleLeafTests(_, _)
\* the leaves of a tree-rules tree, left before right, each with the tests on
\* its path: the kind of split, the feature index, the value and the branch
RuleLeafTests(node, path) ==
    IF "value" \in DOMAIN node
    THEN <<[tests |-> path, label |-> Label(node.value)]>>
    ELSE IF "split" \notin DOMAIN node THEN <<>>
    ELSE LET c == SplitTest(node.split)
             t(d) == [kind |-> node.split.split_type, feat |-> c[1], value |-> c[2],
                      dir |-> d]
         IN RuleLeafTests(node.left, Append(path, t(0)))
            \o RuleLeafTests(node.right, Append(path, t(1)))

RECURSIVE RuleForestTests(_)
RuleForestTests(trees) ==
    IF trees = <<>> THEN <<>>
    ELSE RuleLeafTests(trees[1], <<>>) \o RuleForestTests(Tail(trees))

\* a test holds on an instance: a categorical test by equality (left branch)
\* or inequality (right branch), any other by <= (left) or > (right)
TestHolds(x, t) ==
    IF t.kind = "OneHotFeature"
    THEN (IF t.dir = 0 THEN x[t.feat] = t.value ELSE x[t.feat] # t.value)
    ELSE (IF t.dir = 0 THEN x[t.feat] <= t.value ELSE x[t.feat] > t.value)

\* the indexes (from 0) of the leaves of the loaded tree rules that predict c
\* and whose tests all hold on x
LeavesHolding(x, c) ==
    LET leaves == RuleForestTests(TreesOf(tree_rules))
    IN {i - 1 : i \in {j \in DOMAIN leaves :
                         /\ leaves[j].label = c
                         /\ \A k \in DOMAIN leaves[j].tests :
                               TestHolds(x, leaves[j].tests[k])}}

\* C22: a literal that comes from a categorical (OneHotFeature) split holds on
\* an instance iff the instance's value equals the category (left branch) or
\* differs from it (right branch), so _satisfied_rules returns exactly the
\* rules whose tests hold when categorical tests are evaluated by equality.
C22_CategoricalByEquality ==
    (/\ last.op = "_satisfied_rules"
     /\ tree_rules # EmptyDict
     /\ ~HasMalformedNode(tree_rules))
        => Range(last.ret) = LeavesHolding(last.x, last.class)


\* C23: two split conditions met in one parse receive the same literal only
\* if they are the same kind of split on the same feature with the same
\* threshold or category and the same direction; a numeric split on float
\* feature i, a categorical split on categorical feature i and an online-CTR
\* split with split index i, of equal value and direction, get three literals.
C23_LiteralsSeparateKinds ==
    (/\ last.op = "load_tree_rules"
     /\ last.err = ""
     /\ ~HasMalformedNode(tree_rules))
        => LET leaves == RuleForestTests(TreesOf(tree_rules))
           IN \A i, j \in DOMAIN rule_clauses :
                 \A k \in DOMAIN rule_clauses[i], m \in DOMAIN rule_clauses[j] :
                     rule_clauses[i][k] = rule_clauses[j][m]
                         => leaves[i].tests[k] = leaves[j].tests[m]


\* C24: test_feature_significance returns, for each class in {0, 1} and for
\* every column of the dataset (also one that is in no explanation), a p-value
\* (trials whose permuted support >= the observed support) / n_permutations.
C24_PValuePerFeature ==
    last.op = "test_feature_significance" =>
        /\ last.err = ""
        /\ \A c \in Classes :
              /\ DOMAIN last.ret[c] = Range(last.X.columns)
              /\ \A f \in DOMAIN last.ret[c] :
                    /\ last.ret[c][f][2] = last.n_permutations
                    /\ last.ret[c][f][1] \in 0..last.n_permutations


\* every registered literal was drawn from the generator
IdsBelowGen == \A l \in DOMAIN id_condition_map : l < id_gen

\* rendering a literal that is not registered raises KeyError, and a rendering
\* that returns gives the text of the condition the literal is registered for
RenderOutcome ==
    last.op = "_literal_to_text" =>
        /\ last.lit \notin DOMAIN id_condition_map => last.err = "KeyError"
        /\ last.err = "" =>
              /\ last.lit \in DOMAIN id_condition_map
              /\ last.ret[2] = (IF id_condition_map[last.lit][3] = 0 THEN "<=" ELSE ">")
              /\ last.ret[3] = id_condition_map[last.lit][2]
              /\ last.ret[1] = feature_names[id_condition_map[last.lit][1]]

\* a step never gives a registered literal another condition and never
\* registers an id below the generator, and a parse leaves no literal
\* registered that was registered before it
StaleStep ==
    /\ id_gen' >= id_gen
    /\ \A l \in DOMAIN id_condition_map' :
          IF l \in DOMAIN id_condition_map
          THEN id_condition_map'[l] = id_condition_map[l]
          ELSE l >= id_gen
    /\ (last'.op \in ParseOps /\ ncalls' = ncalls + 1)
          => DOMAIN id_condition_map' \cap DOMAIN id_condition_map = {}

\* C25: a literal issued before the registry was rebuilt by a later parse is
\* no longer registered, so resolving or rendering it raises an error; since
\* ids are never issued twice, a literal of an earlier parse cycle never
\* resolves to a condition other than the one it was issued for.
C25_StaleLiteralsRejected == [](IdsBelowGen /\ RenderOutcome) /\ [][StaleStep]_vars

\* after a second parse a literal of the first parse was rendered and raised
\* KeyError, while the registry holds the literals of the second parse
C25_Witness ==
    /\ last.op = "_literal_to_text"
    /\ last.err = "KeyError"
    /\ ncalls = 2
    /\ model_json # EmptyDict
    /\ DOMAIN id_condition_map # {}
    /\ last.lit < id_gen
    /\ \A l \in DOMAIN id_condition_map : last.lit < l


\* C26: after any sequence of parses and cached calls, _compute_axp_cached(t)
\* gives what an uncached _compute_axp(t) gives on the rule set loaded now: a
\* hitting set of the clauses t denotes now (or the same IndexError), never a
\* result cached under an ensemble loaded before.
C26_CacheFollowsReparse ==
    last.op = "_compute_axp_cached" =>
        IF \E j \in DOMAIN last.key : last.key[j] >= Len(rule_clauses)
        THEN last.err = "IndexError"
        ELSE last.err = "" /\ last.ret \in _compute_axp(last.key)


RECURSIVE Route(_, _)
\* the label of the leaf a model-JSON tree routes the instance to: left when
\* the value is at most the border, right otherwise
Route(node, x) ==
    IF "leaf_value" \in DOMAIN node THEN Label(node.leaf_value)
    ELSE IF x[node.split_condition.float_feature_index] <= node.split_condition.border
    THEN Route(node.left_child, x)
    ELSE Route(node.right_child, x)

\* the explainer holds the rules of a model JSON of numeric splits
NumericLoaded ==
    /\ tree_rules = EmptyDict
    /\ "non_oblivious_trees" \in DOMAIN model_json
    /\ "oblivious_trees" \notin DOMAIN model_json
    /\ Len(rule_clauses) = Len(JsonForestRules(model_json.non_oblivious_trees))

\* the rule numbers (from 1) of the leaves of tree t of the loaded model JSON
RulesOfTree(t) ==
    LET trees == model_json.non_oblivious_trees
        before == Len(JsonForestRules(SubSeq(trees, 1, t - 1)))
    IN (before + 1)..(before + Len(JsonLeafRules(trees[t].nodes, <<>>)))

\* C27: on an ensemble of numeric-threshold splits an instance satisfies
\* exactly one leaf rule of each tree, so the rules matched for class 0 and for
\* class 1 are as many as the trees together, and the rules matched for a
\* class are as many as the trees that route the instance to a leaf of that
\* class: none exactly when every tree routes it to the other class.
C27_OneLeafPerTree ==
    (last.op = "_satisfied_rules" /\ NumericLoaded) =>
        LET trees == model_json.non_oblivious_trees
        IN /\ \A t \in DOMAIN trees :
                 Cardinality((Matched(last.x, 0) \cup Matched(last.x, 1))
                             \cap RulesOfTree(t)) = 1
           /\ Len(last.ret) + Len(_satisfied_rules(last.x, 1 - last.class)) = Len(trees)
           /\ Len(last.ret)
                 = Cardinality({t \in DOMAIN trees : Route(trees[t].nodes, last.x) = last.class})
           /\ last.ret = <<>>
                 <=> \A t \in DOMAIN trees : Route(trees[t].nodes, last.x) # last.class

\* two split trees, an instance whose value equals a border, and no rule
\* matched for a class that some leaf predicts
C27_Witness ==
    /\ last.op = "_satisfied_rules"
    /\ NumericLoaded
    /\ Len(model_json.non_oblivious_trees) = 2
    /\ Len(rule_clauses) = 4
    /\ last.class \in Range(rule_predictions)
    /\ last.ret = <<>>
    /\ \E l \in DOMAIN id_condition_map :
          last.x[id_condition_map[l][1]] = id_condition_map[l][2]


\* C28: in every state reached by parse calls, successful or failed,
\* rule_clauses and rule_predictions have the same length, every prediction
\* is 0 or 1, and every literal of every clause is a key of id_condition_map.
C28_RuleSetWellFormed ==
    /\ Len(rule_clauses) = Len(rule_predictions)
    /\ \A i \in DOMAIN rule_predictions : rule_predictions[i] \in {0, 1}
    /\ \A i \in DOMAIN rule_clauses :
          \A k \in DOMAIN rule_clauses[i] : rule_clauses[i][k] \in DOMAIN id_condition_map

\* a second parse failed half way, on a node that is neither a leaf nor a
\* split, and left the rules emitted before that node
C28_Witness ==
    /\ last.op = "fit_from_model_json"
    /\ last.err = "KeyError"
    /\ ncalls = 2
    /\ id_gen > 1 + Cardinality(DOMAIN id_condition_map)
    /\ \E i \in DOMAIN rule_clauses : rule_clauses[i] # <<>>


\* C29: in the table of _compute_feature_metrics, for every feature the
\* count of instances it is essential for plus the count of instances it is
\* contrastive for equals its coverage (an instance that holds the feature is
\* one or the other, never both), and coverage is at most the number of
\* instances with an explanation, so the essentiality ratio is within 0..1.
C29_EssentialPlusContrastive ==
    (last.op = "_compute_feature_metrics" /\ last.err = "") =>
        LET explained == {last.axps[k].instance : k \in DOMAIN last.axps}
        IN \A row \in last.ret :
              /\ row.essentiality_ratio[1] + row.contrastive_instances = row.coverage
              /\ row.contrastive_instances
                    = Cardinality({i \in explained :
                          /\ \E k \in RecordsOf(last.axps, i) :
                                row.feature \in FeaturesIn(last.axps[k].axp)
                          /\ \E k \in RecordsOf(last.axps, i) :
                                row.feature \notin FeaturesIn(last.axps[k].axp)})
              /\ row.coverage <= Cardinality(explained)
              /\ row.essentiality_ratio[2] = Cardinality(explained)
              /\ 0 <= row.essentiality_ratio[1]
              /\ row.essentiality_ratio[1] <= row.essentiality_ratio[2]

\* a feature that is essential for one instance and contrastive for another
C29_Witness ==
    /\ last.op = "_compute_feature_metrics"
    /\ last.err = ""
    /\ \E row \in last.ret :
          /\ row.essentiality_ratio[1] >= 1
          /\ row.contrastive_instances >= 1
          /\ row.coverage = 2


\* the description given to the last fit_from_model_json is one it rejects
RejectedLoaded ==
    /\ model_json # EmptyDict
    /\ \/ "oblivious_trees" \in DOMAIN model_json
       \/ "non_oblivious_trees" \notin DOMAIN model_json

\* C30: when fit_from_model_json rejects a description (oblivious trees, or
\* no 'non_oblivious_trees'), also on an explainer that holds a parsed
\* ensemble, it raises ValueError and leaves the rule set and the registry
\* empty; an explain call made then matches no rule and returns an empty
\* explanation.
C30_RejectedFitLeavesEmpty ==
    RejectedLoaded =>
        /\ rule_clauses = <<>>
        /\ rule_predictions = <<>>
        /\ DOMAIN condition_id_map = {}
        /\ DOMAIN id_condition_map = {}
        /\ last.op = "fit_from_model_json" => last.err = "ValueError"
        /\ last.op = "_satisfied_rules" => last.ret = <<>>
        /\ last.op = "explain_literals" => ~last.ret.none /\ last.ret.lits = <<>>

\* an ensemble with literals was parsed, a second description was rejected,
\* and explain_literals then returned the empty explanation
C30_Witness ==
    /\ RejectedLoaded
    /\ ncalls = 2
    /\ id_gen > 2
    /\ last.op = "explain_literals"
    /\ last.ret.lits = <<>>

====
